---- MODULE Spec2Model ----
(***************************************************************************)
(* Model of the istio sidecar injector (package inject, inject.go).        *)
(*                                                                         *)
(* Two state machines share the pure operators translated from the code:   *)
(*   Spec        IntoResourceFile: the loop over the documents of a        *)
(*               multi-document YAML stream.                               *)
(*   SpecInject  repeated calls of injectIntoPodTemplateSpec on one pod    *)
(*               template.                                                 *)
(*                                                                         *)
(* Representation of texts.  A JSON or YAML text is a record holding the   *)
(* value it parses to together with its `layout` (key order, white space,  *)
(* comments): "canonical" is what the encoder writes, "other" is any       *)
(* other spelling of the same value.  Decoding drops the layout, encoding  *)
(* always produces the canonical one.                                      *)
(***************************************************************************)
EXTENDS Integers, Sequences, FiniteSets, TLC

VARIABLES
    p,        \* *Params handed to IntoResourceFile / injectIntoPodTemplateSpec
    docs,     \* IntoResourceFile: the raw documents reader.Read has returned
    out,      \* IntoResourceFile: the chunks accepted by the io.Writer
    pc,       \* IntoResourceFile: position in the loop body
    updated,  \* IntoResourceFile: local `updated`
    err,      \* IntoResourceFile: returned error ("nil" while none)
    tmpl,     \* SpecInject: the pod template the calls work on
    prev,     \* SpecInject: the template as it was before the last call
    ret,      \* SpecInject: result of the last call ("none" before any)
    calls     \* SpecInject: number of calls made

vars == <<p, docs, out, pc, updated, err, tmpl, prev, ret, calls>>

streamVars == <<docs, out, pc, updated, err>>
injectVars == <<tmpl, prev, ret, calls>>

(***************************************************************************)
(* Bounds of the model.                                                    *)
(***************************************************************************)
MaxContainers  == 2   \* user containers of a template
MaxInitEntries == 1   \* entries already in the init-containers annotation
MaxCalls       == 2   \* calls of injectIntoPodTemplateSpec on one template
MaxDocs        == 2   \* documents the reader returns before EOF

(***************************************************************************)
(* Constants of inject.go.                                                 *)
(***************************************************************************)
DefaultSidecarProxyUID == 1337
DefaultVerbosity       == 2

istioSidecarAnnotationSidecarKey   == "alpha.istio.io/sidecar"
istioSidecarAnnotationSidecarValue == "injected"
istioSidecarAnnotationVersionKey   == "alpha.istio.io/version"
initContainersAnnotationKey        == "pod.beta.kubernetes.io/init-containers"
initContainerName                  == "init"
proxyContainerName                 == "proxy"
enableCoreDumpContainerName        == "enable-core-dump"
enableCoreDumpImage                == "alpine"
istioCertVolumeName                == "istio-certs"
istioCertSecretPrefix              == "istio."

enableCoreDumpContainer ==
    [name            |-> enableCoreDumpContainerName,
     image           |-> enableCoreDumpImage,
     command         |-> <<"/bin/sh">>,
     args            |-> <<"-c",
         "sysctl -w kernel.core_pattern=/tmp/core.%e.%p.%t && ulimit -c unlimited">>,
     imagePullPolicy |-> "Always",
     securityContext |-> [privileged |-> TRUE]]

(***************************************************************************)
(* Go maps (map[string]string): the nil map and a map value.               *)
(***************************************************************************)
NilMap   == [isNil |-> TRUE,  m |-> <<>>]
EmptyMap == [isNil |-> FALSE, m |-> <<>>]

HasKey(a, k) == k \in DOMAIN a.m

Put(a, k, v) ==
    [isNil |-> FALSE,
     m     |-> [x \in (DOMAIN a.m) \cup {k} |-> IF x = k THEN v ELSE a.m[x]]]

(***************************************************************************)
(* encoding/json on the init-containers annotation.                        *)
(* form: "array" (a JSON array), "null", "object" (valid JSON of another   *)
(* shape) or "bad" (not JSON).                                             *)
(***************************************************************************)
jsonUnmarshal(text) ==
    CASE text.form = "array" -> [v |-> text.entries, err |-> "nil"]
      [] text.form = "null"  -> [v |-> <<>>,         err |-> "nil"]
      [] text.form = "object" ->
             [v |-> <<>>, err |-> "json: cannot unmarshal object"]
      [] OTHER -> [v |-> <<>>, err |-> "json: invalid character"]

jsonMarshal(v) == [form |-> "array", entries |-> v, layout |-> "canonical"]

(***************************************************************************)
(* resolvePort, healthPorts.                                               *)
(***************************************************************************)
RECURSIVE findNamed(_, _)
findNamed(ports, name) ==
    IF ports = <<>> THEN [port |-> 0, err |-> "missing named port"]
    ELSE IF Head(ports).Name = name
         THEN [port |-> Head(ports).ContainerPort, err |-> "nil"]
         ELSE findNamed(Tail(ports), name)

resolvePort(c, port) ==
    CASE port.Type = "Int"    -> [port |-> port.IntVal, err |-> "nil"]
      [] port.Type = "String" -> findNamed(c.Ports, port.StrVal)
      [] OTHER -> [port |-> 0, err |-> "incorrect port type"]

\* one probe of the loop body: add the port to the set or the error to errs
probeStep(c, probe, acc) ==
    IF probe.httpGet
    THEN LET r == resolvePort(c, probe.Port)
         IN  IF r.err /= "nil"
             THEN [set |-> acc.set, errs |-> Append(acc.errs, r.err)]
             ELSE [set |-> acc.set \cup {r.port}, errs |-> acc.errs]
    ELSE acc

RECURSIVE healthPortsLoop(_, _)
healthPortsLoop(cs, acc) ==
    IF cs = <<>> THEN acc
    ELSE LET c == Head(cs)
             a1 == probeStep(c, c.LivenessProbe, acc)
             a2 == probeStep(c, c.ReadinessProbe, a1)
         IN  healthPortsLoop(Tail(cs), a2)

\* `for port := range set`: the elements of the map in some order
RECURSIVE rangeOver(_)
rangeOver(S) ==
    IF S = {} THEN <<>>
    ELSE LET x == CHOOSE y \in S : TRUE
         IN  <<x>> \o rangeOver(S \ {x})

\* variant: the comparison of the sort turned round
RECURSIVE insertSortedDescending(_, _)
insertSortedDescending(s, x) ==
    IF s = <<>> THEN <<x>>
    ELSE IF x >= Head(s) THEN <<x>> \o s
         ELSE <<Head(s)>> \o insertSortedDescending(Tail(s), x)

RECURSIVE insertSorted(_, _)
insertSorted(s, x) ==
    IF s = <<>> THEN <<x>>
    ELSE IF x <= Head(s) THEN <<x>> \o s
         ELSE <<Head(s)>> \o insertSorted(Tail(s), x)

RECURSIVE sortInts(_)
sortInts(s) ==
    IF s = <<>> THEN <<>>
    ELSE insertSorted(sortInts(Tail(s)), Head(s))

\* the error value of a multierror accumulator: nil while nothing was appended
multierror(errs) ==
    IF errs = <<>> THEN "nil" ELSE ToString(Len(errs)) \o " error(s) occurred"

healthPorts(t) ==
    LET acc == healthPortsLoop(t.Spec.Containers, [set |-> {}, errs |-> <<>>])
    IN  [ports |-> sortInts(rangeOver(acc.set)), err |-> multierror(acc.errs)]

(***************************************************************************)
(* injectIntoPodTemplateSpec(p, t).  Returns the template as the call      *)
(* leaves it (it is mutated in place, also on the error paths) and the     *)
(* returned error.                                                         *)
(***************************************************************************)
RECURSIVE passthroughArgs(_)
passthroughArgs(ports) ==
    IF ports = <<>> THEN <<>>
    ELSE <<"--passthrough", ToString(Head(ports))>> \o passthroughArgs(Tail(ports))

initArgs(q) ==
    <<"-p", ToString(q.Mesh.ProxyListenPort), "-u", ToString(q.SidecarProxyUID)>>
    \o (IF q.IncludeIPRanges /= "" THEN <<"-i", q.IncludeIPRanges>> ELSE <<>>)

initContainer(q) ==
    [name            |-> initContainerName,
     image           |-> q.InitImage,
     args            |-> initArgs(q),
     imagePullPolicy |-> "Always",
     securityContext |-> [capabilities |-> [add |-> <<"NET_ADMIN">>]]]

sidecarArgs(q, ports) ==
    <<"proxy", "sidecar">>
    \o (IF q.Verbosity > 0 THEN <<"-v", ToString(q.Verbosity)>> ELSE <<>>)
    \o (IF q.MeshConfigMapName /= "" THEN <<"--meshConfig", q.MeshConfigMapName>> ELSE <<>>)
    \o passthroughArgs(ports)

NoProbe == [httpGet |-> FALSE, Port |-> [Type |-> "Int", IntVal |-> 0, StrVal |-> ""]]

sidecarContainer(q, ports) ==
    [Name            |-> proxyContainerName,
     Image           |-> q.ProxyImage,
     Args            |-> sidecarArgs(q, ports),
     Env             |-> <<[Name |-> "POD_NAME",      FieldPath |-> "metadata.name"],
                           [Name |-> "POD_NAMESPACE", FieldPath |-> "metadata.namespace"],
                           [Name |-> "POD_IP",        FieldPath |-> "status.podIP"]>>,
     ImagePullPolicy |-> "Always",
     RunAsUser       |-> q.SidecarProxyUID,
     VolumeMounts    |-> IF q.Mesh.AuthPolicy = "MUTUAL_TLS"
                         THEN <<[Name |-> istioCertVolumeName, ReadOnly |-> TRUE,
                                 MountPath |-> q.Mesh.AuthCertsPath]>>
                         ELSE <<>>,
     Ports           |-> <<>>,
     LivenessProbe   |-> NoProbe,
     ReadinessProbe  |-> NoProbe]

certVolume(t) ==
    [Name       |-> istioCertVolumeName,
     SecretName |-> istioCertSecretPrefix \o
                      (IF t.Spec.ServiceAccountName = "" THEN "default"
                       ELSE t.Spec.ServiceAccountName)]

\* lines 108-109: the marker and version annotations
withMarker(q, t) ==
    Put(Put(t.Annotations, istioSidecarAnnotationSidecarKey,
            istioSidecarAnnotationSidecarValue),
        istioSidecarAnnotationVersionKey, q.Version)

\* variant: the core-dump entry appended whatever EnableCoreDump says
appendInitAlwaysCoreDump(q, annotations) ==
    annotations \o <<initContainer(q)>> \o <<enableCoreDumpContainer>>

\* lines 125-139: what is appended to the decoded annotation
appendInit(q, annotations) ==
    annotations \o <<initContainer(q)>>
    \o (IF q.EnableCoreDump THEN <<enableCoreDumpContainer>> ELSE <<>>)

\* variant: the error of healthPorts ignored, the resolved ports used
injectBodyIgnoringPortErrors(q, t1) ==
    LET has == HasKey(t1.Annotations, initContainersAnnotationKey)
        dec == IF has THEN jsonUnmarshal(t1.Annotations.m[initContainersAnnotationKey])
               ELSE [v |-> <<>>, err |-> "nil"]
        t2  == [t1 EXCEPT !.Annotations =
                   Put(@, initContainersAnnotationKey,
                       jsonMarshal(appendInit(q, dec.v)))]
        hp  == healthPorts(t2)
        t3  == IF q.Mesh.AuthPolicy = "MUTUAL_TLS"
               THEN [t2 EXCEPT !.Spec.Volumes = Append(@, certVolume(t2))]
               ELSE t2
        t4  == [t3 EXCEPT !.Spec.Containers = Append(@, sidecarContainer(q, hp.ports))]
    IN  IF dec.err /= "nil" THEN [t |-> t1, err |-> dec.err, panic |-> FALSE]
        ELSE [t |-> t4, err |-> "nil", panic |-> FALSE]

\* lines 111-225, entered with the marker and version annotations set
injectBody(q, t1) ==
    LET has == HasKey(t1.Annotations, initContainersAnnotationKey)
        dec == IF has THEN jsonUnmarshal(t1.Annotations.m[initContainersAnnotationKey])
               ELSE [v |-> <<>>, err |-> "nil"]
        t2  == [t1 EXCEPT !.Annotations =
                   Put(@, initContainersAnnotationKey,
                       jsonMarshal(appendInit(q, dec.v)))]
        hp  == healthPorts(t2)
        t3  == IF q.Mesh.AuthPolicy = "MUTUAL_TLS"
               THEN [t2 EXCEPT !.Spec.Volumes = Append(@, certVolume(t2))]
               ELSE t2
        t4  == [t3 EXCEPT !.Spec.Containers = Append(@, sidecarContainer(q, hp.ports))]
    IN  IF dec.err /= "nil" THEN [t |-> t1, err |-> dec.err, panic |-> FALSE]
        ELSE IF hp.err /= "nil" THEN [t |-> t2, err |-> hp.err, panic |-> FALSE]
        ELSE [t |-> t4, err |-> "nil", panic |-> FALSE]

\* variant: the guard tests the marker's value instead of its presence
injectUnlessValueInjected(q, tp) ==
    IF tp.isNil
    THEN [t |-> tp.v, err |-> "nil", panic |-> TRUE]
    ELSE IF (~tp.v.Annotations.isNil)
            /\ HasKey(tp.v.Annotations, istioSidecarAnnotationSidecarKey)
            /\ tp.v.Annotations.m[istioSidecarAnnotationSidecarKey]
                   = istioSidecarAnnotationSidecarValue
         THEN [t |-> tp.v, err |-> "nil", panic |-> FALSE]
         ELSE injectBody(q, [tp.v EXCEPT !.Annotations = withMarker(q, tp.v)])

\* tp is the pointer argument: [isNil, v]
injectIntoPodTemplateSpec(q, tp) ==
    IF tp.isNil
    THEN [t |-> tp.v, err |-> "nil", panic |-> TRUE]   \* t.Annotations on a nil t
    ELSE IF (~tp.v.Annotations.isNil)
            /\ HasKey(tp.v.Annotations, istioSidecarAnnotationSidecarKey)
         THEN [t |-> tp.v, err |-> "nil", panic |-> FALSE]
         ELSE injectBody(q, [tp.v EXCEPT !.Annotations = withMarker(q, tp.v)])

Ptr(t) == [isNil |-> FALSE, v |-> t]

(***************************************************************************)
(* Inputs: parameters and pod templates.                                   *)
(***************************************************************************)
\* the options of the proxy command line: those of the package's test
\* (verbosity 2, nothing else) and the opposite choice for each of them
ProxyOptions == { [v |-> DefaultVerbosity, cm |-> "", ip |-> ""],
                  [v |-> 0, cm |-> "istio", ip |-> "10.0.0.0/8"] }

ParamsSet ==
    { [InitImage         |-> "docker.io/istio/init:unittest",
       ProxyImage        |-> "docker.io/istio/proxy_debug:unittest",
       Verbosity         |-> opt.v,
       SidecarProxyUID   |-> DefaultSidecarProxyUID,
       Version           |-> "12345678",
       EnableCoreDump    |-> cd,
       Mesh              |-> [ProxyListenPort |-> 15001,
                              AuthPolicy      |-> ap,
                              AuthCertsPath   |-> "/etc/certs/"],
       MeshConfigMapName |-> opt.cm,
       IncludeIPRanges   |-> opt.ip] :
       opt \in ProxyOptions, cd \in BOOLEAN, ap \in {"NONE", "MUTUAL_TLS"} }

IntProbe(n) == [httpGet |-> TRUE, Port |-> [Type |-> "Int", IntVal |-> n, StrVal |-> ""]]
StrProbe(s) == [httpGet |-> TRUE, Port |-> [Type |-> "String", IntVal |-> 0, StrVal |-> s]]

\* the declared ports of a user container; "http" is found behind "metrics",
\* "admin" is a name no container declares
DeclaredPorts == << [Name |-> "metrics", ContainerPort |-> 9090],
                    [Name |-> "http",    ContainerPort |-> 80] >>

ContainerSet ==
    { [Name |-> "app", Image |-> "hello", Ports |-> DeclaredPorts,
       LivenessProbe |-> lp, ReadinessProbe |-> rp] :
       lp \in {NoProbe, IntProbe(8080), StrProbe("http")},
       rp \in {NoProbe, StrProbe("http"), StrProbe("admin")} }

SeqsUpTo(S, n) == UNION { [1..k -> S] : k \in 0..n }

ExistingEntries == { [name |-> "setup", image |-> "busybox"],
                     [name |-> "init",  image |-> "old/init"] }

InitTexts ==
    { [form |-> "bad",    entries |-> <<>>, layout |-> "other"],
      [form |-> "object", entries |-> <<>>, layout |-> "canonical"],
      [form |-> "null",   entries |-> <<>>, layout |-> "canonical"] }
    \cup { [form |-> "array", entries |-> es, layout |-> l] :
           es \in SeqsUpTo(ExistingEntries, MaxInitEntries),
           l \in {"canonical", "other"} }

\* annotation maps without the marker
FreshAnnotations ==
    { NilMap, EmptyMap, Put(EmptyMap, istioSidecarAnnotationVersionKey, "old") }
    \cup { Put(EmptyMap, initContainersAnnotationKey, x) : x \in InitTexts }

\* annotation maps with the marker (value "injected" or any other)
MarkedAnnotations ==
    LET marked(v) == Put(EmptyMap, istioSidecarAnnotationSidecarKey, v)
    IN  UNION { {marked(v)} \cup
                { Put(Put(marked(v), istioSidecarAnnotationVersionKey, "old"),
                      initContainersAnnotationKey, x) :
                      x \in { y \in InitTexts : y.form = "bad" \/
                                 (y.layout = "other" /\ y.entries = <<>>) } } :
                v \in {istioSidecarAnnotationSidecarValue, "ignore"} }

Template(a, cs, sa) ==
    [Annotations |-> a,
     Spec |-> [Containers |-> cs, Volumes |-> <<>>, ServiceAccountName |-> sa]]

ZeroTemplate == Template(NilMap, <<>>, "")

FreshTemplates ==
    { Template(a, cs, sa) :
        a \in FreshAnnotations, cs \in SeqsUpTo(ContainerSet, MaxContainers),
        sa \in {"", "build"} }

MarkedTemplates ==
    { Template(a, cs, sa) :
        a \in MarkedAnnotations, cs \in SeqsUpTo(ContainerSet, MaxContainers),
        sa \in {"", "build"} }

(***************************************************************************)
(* SpecInject: calls of injectIntoPodTemplateSpec on one template.         *)
(***************************************************************************)
StreamIdle ==
    /\ docs = <<>> /\ out = <<>> /\ pc = "idle" /\ updated = <<>> /\ err = "nil"

InitInject ==
    /\ p \in ParamsSet
    /\ tmpl \in FreshTemplates \cup MarkedTemplates
    /\ prev = tmpl
    /\ ret = "none"
    /\ calls = 0
    /\ StreamIdle

InitFresh ==
    /\ InitInject
    /\ tmpl \in FreshTemplates

Inject ==
    /\ calls < MaxCalls
    /\ LET r == injectIntoPodTemplateSpec(p, Ptr(tmpl))
       IN  /\ tmpl' = r.t
           /\ ret' = r.err
    /\ prev' = tmpl
    /\ calls' = calls + 1
    /\ UNCHANGED <<p, streamVars>>

NextInject == Inject

SpecInject == InitInject /\ [][NextInject]_vars
SpecFresh  == InitFresh /\ [][NextInject]_vars

(***************************************************************************)
(* YAML documents.  The bytes of a document are a record: `syntax` tells   *)
(* whether they parse as YAML at all, `schema` whether they fit the Go     *)
(* type of their kind, `layout` how they are written; `hasTemplate` and    *)
(* `template` are spec.template.                                           *)
(***************************************************************************)
RecognizedKinds ==
    {"Job", "DaemonSet", "ReplicaSet", "Deployment", "ReplicationController"}

\* yaml.Unmarshal(raw, &meta)
yamlUnmarshalMeta(raw) ==
    IF raw.syntax /= "ok" THEN [Kind |-> "", err |-> "yaml: did not find expected node"]
    ELSE [Kind |-> raw.kind, err |-> "nil"]

\* yaml.Unmarshal(raw, kind.typ) into a fresh object of the kind's type.
\* Spec.Template is a struct in the four kinds of batch and extensions and
\* a pointer, nil when the document has no template, in ReplicationController.
yamlUnmarshal(raw, kind) ==
    IF raw.syntax /= "ok" \/ raw.schema /= "ok"
    THEN [obj |-> [Kind |-> kind, Template |-> ZeroTemplate],
          err |-> "json: cannot unmarshal into Go value"]
    ELSE [obj |-> [Kind |-> kind,
                   Template |->
                      IF kind = "ReplicationController"
                      THEN [isNil |-> ~raw.hasTemplate,
                            v |-> IF raw.hasTemplate THEN raw.template ELSE ZeroTemplate]
                      ELSE IF raw.hasTemplate THEN raw.template ELSE ZeroTemplate],
          err |-> "nil"]

\* annotations are written with omitempty: an empty map is left out
marshalTemplate(t) ==
    IF DOMAIN t.Annotations.m = {} THEN [t EXCEPT !.Annotations = NilMap] ELSE t

\* yaml.Marshal(kind.typ)
yamlMarshal(obj) ==
    [syntax |-> "ok", layout |-> "canonical", kind |-> obj.Kind, schema |-> "ok",
     hasTemplate |-> IF obj.Kind = "ReplicationController"
                     THEN ~obj.Template.isNil ELSE TRUE,
     template    |-> IF obj.Kind = "ReplicationController"
                     THEN marshalTemplate(obj.Template.v)
                     ELSE marshalTemplate(obj.Template)]

\* kinds[kind].inject(typ): the template reference of each kind
kindsInject(q, obj) ==
    IF obj.Kind = "ReplicationController"
    THEN LET r == injectIntoPodTemplateSpec(q, obj.Template)
         IN  [obj |-> [obj EXCEPT !.Template.v = r.t], err |-> r.err, panic |-> r.panic]
    ELSE LET r == injectIntoPodTemplateSpec(q, Ptr(obj.Template))
         IN  [obj |-> [obj EXCEPT !.Template = r.t], err |-> r.err, panic |-> r.panic]

\* variant: every document is decoded as a workload, whatever its kind
processDocumentAnyKind(q, raw) ==
    LET meta == yamlUnmarshalMeta(raw)
        dec  == yamlUnmarshal(raw, meta.Kind)
        inj  == kindsInject(q, dec.obj)
    IN  IF meta.err /= "nil" THEN [updated |-> <<>>, err |-> meta.err, panic |-> FALSE]
        ELSE IF dec.err /= "nil" THEN [updated |-> <<>>, err |-> dec.err, panic |-> FALSE]
        ELSE IF inj.panic THEN [updated |-> <<>>, err |-> "nil", panic |-> TRUE]
        ELSE IF inj.err /= "nil" THEN [updated |-> <<>>, err |-> inj.err, panic |-> FALSE]
        ELSE [updated |-> yamlMarshal(inj.obj), err |-> "nil", panic |-> FALSE]

\* variant: a document whose template is already marked is passed through
processDocumentRawIfMarked(q, raw) ==
    LET meta == yamlUnmarshalMeta(raw)
        dec  == yamlUnmarshal(raw, meta.Kind)
        inj  == kindsInject(q, dec.obj)
    IN  IF meta.err /= "nil" THEN [updated |-> <<>>, err |-> meta.err, panic |-> FALSE]
        ELSE IF meta.Kind \in RecognizedKinds
        THEN IF dec.err /= "nil" THEN [updated |-> <<>>, err |-> dec.err, panic |-> FALSE]
             ELSE IF inj.panic THEN [updated |-> <<>>, err |-> "nil", panic |-> TRUE]
             ELSE IF inj.err /= "nil" THEN [updated |-> <<>>, err |-> inj.err, panic |-> FALSE]
             ELSE IF inj.obj = dec.obj THEN [updated |-> raw, err |-> "nil", panic |-> FALSE]
             ELSE [updated |-> yamlMarshal(inj.obj), err |-> "nil", panic |-> FALSE]
        ELSE [updated |-> raw, err |-> "nil", panic |-> FALSE]

\* lines 321-338: from the raw document to `updated`
processDocument(q, raw) ==
    LET meta == yamlUnmarshalMeta(raw)
        dec  == yamlUnmarshal(raw, meta.Kind)
        inj  == kindsInject(q, dec.obj)
    IN  IF meta.err /= "nil" THEN [updated |-> <<>>, err |-> meta.err, panic |-> FALSE]
        ELSE IF meta.Kind \in RecognizedKinds
        THEN IF dec.err /= "nil" THEN [updated |-> <<>>, err |-> dec.err, panic |-> FALSE]
             ELSE IF inj.panic THEN [updated |-> <<>>, err |-> "nil", panic |-> TRUE]
             ELSE IF inj.err /= "nil" THEN [updated |-> <<>>, err |-> inj.err, panic |-> FALSE]
             ELSE [updated |-> yamlMarshal(inj.obj), err |-> "nil", panic |-> FALSE]
        ELSE [updated |-> raw, err |-> "nil", panic |-> FALSE]

(***************************************************************************)
(* The documents the reader may return.                                    *)
(***************************************************************************)
\* the parameters of the package's test
TestParams ==
    CHOOSE q \in ParamsSet :
        /\ q.Verbosity = DefaultVerbosity /\ q.MeshConfigMapName = ""
        /\ ~q.EnableCoreDump /\ q.Mesh.AuthPolicy = "NONE"

HelloContainer ==
    [Name |-> "app", Image |-> "hello", Ports |-> DeclaredPorts,
     LivenessProbe |-> StrProbe("http"), ReadinessProbe |-> NoProbe]

PlainTemplate       == Template(NilMap, <<HelloContainer>>, "")
InjectedTemplate    == injectIntoPodTemplateSpec(TestParams, Ptr(PlainTemplate)).t
BadInitTemplate     ==
    Template(Put(EmptyMap, initContainersAnnotationKey,
                 [form |-> "bad", entries |-> <<>>, layout |-> "other"]),
             <<HelloContainer>>, "")
MissingPortTemplate ==
    Template(NilMap, <<[HelloContainer EXCEPT !.ReadinessProbe = StrProbe("admin")]>>, "")

StreamTemplates ==
    {PlainTemplate, InjectedTemplate, BadInitTemplate, MissingPortTemplate}

Layouts == {"canonical", "other"}

Doc(k, l, sch, has, t) ==
    [syntax |-> "ok", layout |-> l, kind |-> k, schema |-> sch,
     hasTemplate |-> has, template |-> t]

DocSet ==
    \* bytes that are not YAML
    { [syntax |-> "bad", layout |-> "other", kind |-> "", schema |-> "bad",
       hasTemplate |-> FALSE, template |-> ZeroTemplate] }
    \* documents of other kinds, and documents without a kind
    \cup { Doc(k, l, "ok", FALSE, ZeroTemplate) : k \in {"Service", ""}, l \in Layouts }
    \* workloads that do not fit the schema of their kind
    \cup { Doc(k, "other", "bad", FALSE, ZeroTemplate) : k \in RecognizedKinds }
    \* workloads without spec.template
    \cup { Doc(k, l, "ok", FALSE, ZeroTemplate) : k \in RecognizedKinds, l \in Layouts }
    \* workloads with a template
    \cup { Doc(k, l, "ok", TRUE, t) :
             k \in RecognizedKinds, l \in Layouts, t \in StreamTemplates }

Sep == [sep |-> "---\n"]

\* what a failing Write has accepted of the chunk x: part of it
Partial(x) == [partOf |-> x]

(***************************************************************************)
(* Spec: IntoResourceFile.                                                 *)
(***************************************************************************)
InjectIdle ==
    /\ tmpl = ZeroTemplate /\ prev = ZeroTemplate /\ ret = "none" /\ calls = 0

Init ==
    /\ p \in { q \in ParamsSet : q.Verbosity = DefaultVerbosity }
    /\ docs = <<>>
    /\ out = <<>>
    /\ pc = "read"
    /\ updated = <<>>
    /\ err = "nil"
    /\ InjectIdle

\* reader.Read() returns the next document
ReadDoc ==
    /\ pc = "read"
    /\ Len(docs) < MaxDocs
    /\ \E d \in DocSet : docs' = Append(docs, d)
    /\ pc' = "process"
    /\ UNCHANGED <<p, out, updated, err, injectVars>>

\* reader.Read() returns io.EOF
ReadEOF ==
    /\ pc = "read"
    /\ pc' = "done"
    /\ UNCHANGED <<p, docs, out, updated, err, injectVars>>

\* reader.Read() returns another error
ReadError ==
    /\ pc = "read"
    /\ pc' = "done"
    /\ err' = "read error"
    /\ UNCHANGED <<p, docs, out, updated, injectVars>>

\* variant: the raw document is written before an error is returned
ProcessWritesRawOnError ==
    /\ pc = "process"
    /\ LET r == processDocument(p, docs[Len(docs)])
       IN  IF r.panic
           THEN pc' = "panic" /\ UNCHANGED <<updated, err, out>>
           ELSE IF r.err /= "nil"
           THEN /\ pc' = "done" /\ err' = r.err /\ UNCHANGED updated
                /\ out' = Append(out, docs[Len(docs)])
           ELSE pc' = "write" /\ updated' = r.updated /\ UNCHANGED <<err, out>>
    /\ UNCHANGED <<p, docs, injectVars>>

\* lines 286-338 on the document just read
Process ==
    /\ pc = "process"
    /\ LET r == processDocument(p, docs[Len(docs)])
       IN  IF r.panic
           THEN pc' = "panic" /\ UNCHANGED <<updated, err>>
           ELSE IF r.err /= "nil"
           THEN pc' = "done" /\ err' = r.err /\ UNCHANGED updated
           ELSE pc' = "write" /\ updated' = r.updated /\ UNCHANGED err
    /\ UNCHANGED <<p, docs, out, injectVars>>

\* out.Write(updated) succeeds
WriteDoc ==
    /\ pc = "write"
    /\ out' = Append(out, updated)
    /\ pc' = "sep"
    /\ UNCHANGED <<p, docs, updated, err, injectVars>>

\* out.Write(updated) fails, having accepted nothing or a part
WriteDocFail ==
    /\ pc = "write"
    /\ \/ out' = out
       \/ out' = Append(out, Partial(updated))
    /\ pc' = "done"
    /\ err' = "write error"
    /\ UNCHANGED <<p, docs, updated, injectVars>>

\* variant: no separator after a document that was written as it was read
WriteSepIfChanged ==
    /\ pc = "sep"
    /\ out' = IF updated = docs[Len(docs)] THEN out ELSE Append(out, Sep)
    /\ pc' = "read"
    /\ UNCHANGED <<p, docs, updated, err, injectVars>>

\* fmt.Fprint(out, "---\n") succeeds
WriteSep ==
    /\ pc = "sep"
    /\ out' = Append(out, Sep)
    /\ pc' = "read"
    /\ UNCHANGED <<p, docs, updated, err, injectVars>>

\* fmt.Fprint(out, "---\n") fails, having accepted nothing or a part
WriteSepFail ==
    /\ pc = "sep"
    /\ \/ out' = out
       \/ out' = Append(out, Partial(Sep))
    /\ pc' = "done"
    /\ err' = "write error"
    /\ UNCHANGED <<p, docs, updated, injectVars>>

Next ==
    \/ ReadDoc
    \/ ReadEOF
    \/ ReadError
    \/ Process
    \/ WriteDoc
    \/ WriteDocFail
    \/ WriteSep
    \/ WriteSepFail

Spec == Init /\ [][Next]_vars

(***************************************************************************)
(* Properties of injectIntoPodTemplateSpec.                                *)
(***************************************************************************)
HasMarker(t)  == HasKey(t.Annotations, istioSidecarAnnotationSidecarKey)
Called        == ret /= "none"
ProxyCount(t) ==
    Cardinality({ i \in DOMAIN t.Spec.Containers :
                    t.Spec.Containers[i].Name = proxyContainerName })

\* C1: a call on a template that already carries the marker annotation (with
\* any value) returns nil and leaves annotations, containers, volumes and
\* service account as they were.
C1_MarkedIsNoOp ==
    (Called /\ HasMarker(prev)) =>
        /\ ret = "nil"
        /\ tmpl.Annotations = prev.Annotations
        /\ tmpl.Spec.Containers = prev.Spec.Containers
        /\ tmpl.Spec.Volumes = prev.Spec.Volumes
        /\ tmpl.Spec.ServiceAccountName = prev.Spec.ServiceAccountName

\* a call was made on a template marked with a value other than "injected",
\* whose version annotation differs from the configured version
C1_Witness ==
    /\ Called /\ HasMarker(prev)
    /\ prev.Annotations.m[istioSidecarAnnotationSidecarKey]
           /= istioSidecarAnnotationSidecarValue
    /\ HasKey(prev.Annotations, istioSidecarAnnotationVersionKey)
    /\ prev.Annotations.m[istioSidecarAnnotationVersionKey] /= p.Version
    /\ HasKey(tmpl.Annotations, initContainersAnnotationKey)
    /\ tmpl = prev

\* The health-check ports of a template, stated from the probes: a literal
\* port is the port; a named port is the container port of the first
\* declared port of the same container carrying the name.
NamedPortIndex(c, name) ==
    { i \in DOMAIN c.Ports :
        /\ c.Ports[i].Name = name
        /\ \A j \in 1..(i - 1) : c.Ports[j].Name /= name }

ProbePorts(c, probe) ==
    IF ~probe.httpGet THEN {}
    ELSE IF probe.Port.Type = "Int" THEN {probe.Port.IntVal}
    ELSE { c.Ports[i].ContainerPort : i \in NamedPortIndex(c, probe.Port.StrVal) }

ProbeUnresolved(c, probe) ==
    probe.httpGet /\ probe.Port.Type = "String"
                  /\ NamedPortIndex(c, probe.Port.StrVal) = {}

ResolvedPorts(t) ==
    UNION { ProbePorts(t.Spec.Containers[i], t.Spec.Containers[i].LivenessProbe)
            \cup ProbePorts(t.Spec.Containers[i], t.Spec.Containers[i].ReadinessProbe) :
            i \in DOMAIN t.Spec.Containers }

HasUnresolved(t) ==
    \E i \in DOMAIN t.Spec.Containers :
        \/ ProbeUnresolved(t.Spec.Containers[i], t.Spec.Containers[i].LivenessProbe)
        \/ ProbeUnresolved(t.Spec.Containers[i], t.Spec.Containers[i].ReadinessProbe)

HttpProbeCount(t) ==
    Cardinality({ <<i, k>> \in (DOMAIN t.Spec.Containers) \X {"l", "r"} :
        IF k = "l" THEN t.Spec.Containers[i].LivenessProbe.httpGet
        ELSE t.Spec.Containers[i].ReadinessProbe.httpGet })

\* the positions of "--passthrough" in an argument sequence
PassthroughAt(args) == { i \in DOMAIN args : args[i] = "--passthrough" }

LastContainer(t) == t.Spec.Containers[Len(t.Spec.Containers)]

InitDecodable(t) ==
    HasKey(t.Annotations, initContainersAnnotationKey) =>
        t.Annotations.m[initContainersAnnotationKey].form \in {"array", "null"}

\* the passthrough arguments of `args` are exactly the ports of R, each once,
\* in ascending order
PassthroughIs(args, R) ==
    LET at == PassthroughAt(args)
    IN  /\ \A i \in at : i < Len(args)
        /\ Cardinality(at) = Cardinality(R)
        /\ { args[i + 1] : i \in at } = { ToString(x) : x \in R }
        /\ \A i, j \in at : i < j =>
               \E x, y \in R : /\ args[i + 1] = ToString(x)
                               /\ args[j + 1] = ToString(y)
                               /\ x < y

\* C6: after a successful injection the sidecar's arguments hold one
\* `--passthrough <p>` pair for every resolved health-check port p of the
\* template, ascending, none repeated, and for no other port.
C6_PassthroughPorts ==
    (Called /\ ~HasMarker(prev) /\ ret = "nil") =>
        /\ LastContainer(tmpl).Name = proxyContainerName
        /\ PassthroughIs(LastContainer(tmpl).Args, ResolvedPorts(prev))

\* a successful injection where three probes resolve to two ports, the
\* larger one met first
C6_Witness ==
    /\ Called /\ ~HasMarker(prev) /\ ret = "nil"
    /\ ResolvedPorts(prev) = {80, 8080}
    /\ HttpProbeCount(prev) >= 3
    /\ prev.Spec.Containers[1].LivenessProbe = IntProbe(8080)
    /\ PassthroughAt(LastContainer(tmpl).Args) /= {}

\* C7 as the specification states it: a named probe port that no declared
\* port matches does not stop the injection; the sidecar is built with the
\* ports that did resolve and appended.
C7_PortErrorNotFatal ==
    (Called /\ ~HasMarker(prev) /\ InitDecodable(prev) /\ HasUnresolved(prev)) =>
        /\ ret = "nil"
        /\ Len(tmpl.Spec.Containers) = Len(prev.Spec.Containers) + 1
        /\ LastContainer(tmpl).Name = proxyContainerName

\* C7 as the code has it: a named probe port that no declared port matches
\* makes the injection fail with the aggregated error; no sidecar container
\* and no certificate volume is added, while the marker, version and
\* init-containers annotations written before stay in the template.
C7_PortErrorIsFatal ==
    (Called /\ ~HasMarker(prev) /\ InitDecodable(prev) /\ HasUnresolved(prev)) =>
        /\ ret \notin {"nil", "none"}
        /\ tmpl.Spec = prev.Spec
        /\ HasMarker(tmpl)
        /\ HasKey(tmpl.Annotations, istioSidecarAnnotationVersionKey)
        /\ HasKey(tmpl.Annotations, initContainersAnnotationKey)

\* a call failed on a template with one unresolved and one resolved port
C7_Witness ==
    /\ Called /\ ~HasMarker(prev) /\ InitDecodable(prev) /\ HasUnresolved(prev)
    /\ ResolvedPorts(prev) /= {}
    /\ ret = "1 error(s) occurred"
    /\ ProxyCount(tmpl) = 0

\* C8 as the specification states it: whatever calls were made on a template
\* that started with neither marker nor proxy container, it carries the
\* marker if and only if it holds the proxy container, and holds it at most
\* once.
C8_MarkerIffProxy ==
    /\ HasMarker(tmpl) <=> ProxyCount(tmpl) >= 1
    /\ ProxyCount(tmpl) <= 1

\* the decoded init-containers annotation of a template (empty when absent)
InitEntries(t) ==
    IF HasKey(t.Annotations, initContainersAnnotationKey)
    THEN t.Annotations.m[initContainersAnnotationKey].entries
    ELSE <<>>

Recognized(d)   == d.syntax = "ok" /\ d.kind \in RecognizedKinds
Unrecognized(d) == d.syntax = "ok" /\ d.kind \notin RecognizedKinds
IsDocument(c)   == "syntax" \in DOMAIN c
Marked(d)       == Recognized(d) /\ d.schema = "ok" /\ d.hasTemplate
                                 /\ HasMarker(d.template)

\* the writer has accepted a whole chunk for document i
Emitted(i) == Len(out) >= 2 * i - 1 /\ IsDocument(out[2 * i - 1])

\* chunk c is the output of document d: d itself for an unrecognized kind,
\* else a canonical document of the same kind whose template keeps the
\* containers of d's template in front
OutputOf(c, d) ==
    /\ IsDocument(c)
    /\ c.kind = d.kind
    /\ Unrecognized(d) => c = d
    /\ Recognized(d) =>
          /\ c.layout = "canonical"
          /\ c.hasTemplate
          /\ Len(c.template.Spec.Containers) >= Len(d.template.Spec.Containers)
          /\ \A j \in DOMAIN d.template.Spec.Containers :
                 c.template.Spec.Containers[j] = d.template.Spec.Containers[j]
          /\ HasMarker(c.template)

\* C2 as the specification states it: a workload whose template already
\* carries the marker is written with its original bytes.
C2_MarkedIsVerbatim ==
    \A i \in DOMAIN docs : (Marked(docs[i]) /\ Emitted(i)) => out[2 * i - 1] = docs[i]

\* C2 as the code has it: a workload whose template already carries the
\* marker is written as the re-encoding of the decoded object: same kind,
\* same template, in the encoder's canonical layout, hence the original
\* bytes only when the original was already canonical.
C2_MarkedIsReencoded ==
    \A i \in DOMAIN docs :
        (Marked(docs[i]) /\ Emitted(i)) =>
            /\ out[2 * i - 1] = [docs[i] EXCEPT !.layout = "canonical"]
            /\ out[2 * i - 1] = docs[i] <=> docs[i].layout = "canonical"

\* a marked workload not written canonically was emitted
C2_Witness ==
    /\ Len(docs) >= 1 /\ Marked(docs[1]) /\ Emitted(1)
    /\ docs[1].layout = "other"
    /\ out[1].template = docs[1].template
    /\ out[1] /= docs[1]

\* C3: a document of an unrecognized kind raises no error of its own (only
\* the writer can fail on it), what is handed to the writer and written for
\* it is exactly the bytes read, and the next document is read only after
\* its separator.
C3_UnrecognizedPassThrough ==
    \A i \in DOMAIN docs :
        Unrecognized(docs[i]) =>
            /\ (i = Len(docs) /\ pc = "write") => updated = docs[i]
            /\ (i = Len(docs)) => pc /= "panic"
            /\ (i = Len(docs) /\ pc = "done" /\ Len(out) < 2 * i) => err = "write error"
            /\ Len(out) >= 2 * i - 1 =>
                   \/ out[2 * i - 1] = docs[i]
                   \/ /\ out[2 * i - 1] = Partial(docs[i])
                      /\ err = "write error" /\ Len(out) = 2 * i - 1
            /\ (i < Len(docs) \/ pc = "read") => (Len(out) >= 2 * i /\ out[2 * i] = Sep)

\* a document of another kind, not written canonically, was passed through
\* and the next document was read
C3_Witness ==
    /\ Len(docs) = 2 /\ Unrecognized(docs[1]) /\ docs[1].layout = "other"
    /\ Len(out) >= 2 /\ out[1] = docs[1] /\ out[2] = Sep
    /\ err = "nil"

\* C4: when the stream was processed without error the output is, for each
\* document in input order, the output of that document followed by one
\* separator, and nothing else; nothing for an empty stream.
C4_OneDocumentAndSeparatorEach ==
    (pc = "done" /\ err = "nil") =>
        /\ Len(out) = 2 * Len(docs)
        /\ \A i \in DOMAIN docs :
               /\ OutputOf(out[2 * i - 1], docs[i])
               /\ out[2 * i] = Sep

\* a stream of an injected workload and an untouched document ended well
C4_Witness ==
    /\ pc = "done" /\ err = "nil" /\ Len(docs) = 2
    /\ Recognized(docs[1]) /\ ~HasMarker(docs[1].template)
    /\ Unrecognized(docs[2])
    /\ out[3] = docs[2] /\ out[4] = Sep

\* C5: an error of reading, peeking, decoding or injecting document k is
\* returned at once: the loop has stopped, and the output is exactly the
\* outputs of the documents before k, each followed by its separator.
C5_ErrorAborts ==
    /\ err /= "nil" => pc = "done"
    /\ (pc = "done" /\ err \notin {"nil", "write error"}) =>
          LET k == IF err = "read error" THEN Len(docs) + 1 ELSE Len(docs)
          IN  /\ Len(out) = 2 * (k - 1)
              /\ \A i \in 1..(k - 1) :
                     /\ OutputOf(out[2 * i - 1], docs[i])
                     /\ out[2 * i] = Sep

\* the injection of the second document failed after the first was written
C5_Witness ==
    /\ pc = "done" /\ Len(docs) = 2
    /\ docs[2].template \in {BadInitTemplate, MissingPortTemplate}
    /\ err \notin {"nil", "write error", "read error"}
    /\ Len(out) = 2 /\ out[2] = Sep

\* C10 as the specification states it: processing a document of a
\* recognized kind never crashes, with or without spec.template.
C10_NeverCrashes == pc /= "panic"

====
